---- MODULE Spec2Model ----
(***************************************************************************)
(* chirpy: the playback controller (src/audio/player.rs), the sample       *)
(* capture wrapper (src/audio/sample_capture.rs) and the snapshot taken by *)
(* the visualizer (src/audio/visualizer/mod.rs).                           *)
(*                                                                         *)
(* Three threads share the ring buffer: the UI thread (MusicPlayer's       *)
(* public methods, Visualizer::update), the audio thread spawned by        *)
(* MusicPlayer::new (the command loop) and the output-device thread that   *)
(* pulls SampleCapture::next for every source appended to a sink.          *)
(***************************************************************************)
EXTENDS Integers, Sequences, FiniteSets, TLC

\* HeapRb::<f32>::new(16384), scaled down.
Capacity == 3
\* `available < 512` in Visualizer::update, scaled down.
MinSamples == 1
\* `available.min(2048)` in Visualizer::update, scaled down.
SnapMax == 2
\* Number of play/pause/resume/stop calls the UI thread makes.
MaxCmds == 3
\* Number of those calls that are play calls.
MaxPlays == 2
\* Number of pushes explored by the ring-buffer specification.
MaxPushes == 5
\* Sample values pushed by the ring-buffer specification are 0..MaxSample.
MaxSample == 2

VARIABLES
    cmd_queue,        \* the mpsc channel (cmd_tx -> rx)
    issued,           \* history: every command sent, in call order
    handled,          \* history: every command received by the audio thread
    is_playing_flag,  \* AtomicBool
    is_paused_flag,   \* AtomicBool
    sample_buffer,    \* Arc<Mutex<HeapRb<f32>>>: oldest first
    mode,             \* "normal" | "drained" (OutputStream::try_default)
    wpc,              \* position of the audio thread
    cmd,              \* command being handled by the audio thread
    sink,             \* Option<Sink>: 0 = None, else the session id
    sess,             \* every Sink created so far, by session id
    inflight,         \* device thread: session whose sample was pulled from
                      \* the source and is not pushed yet (0 = none)
    snap,             \* the samples copied by the last Visualizer::update
    pushed,           \* history: values pushed since the last clear
    smoothed_magnitudes, \* Visualizer: per band, in 1/Unit
    peak_holds,       \* Visualizer: per band, in 1/Unit
    min_db,           \* FftProcessor, in 1/DbUnit dB
    max_db,           \* FftProcessor, in 1/DbUnit dB
    cycles,           \* number of Visualizer::update calls made
    level,            \* the level of the input signal, in 1/DbUnit dB
    lock,             \* which thread holds the ring buffer's mutex
    vpc,              \* where Visualizer::update is
    spectrum_size,    \* group_into_bands: its argument
    band,             \* group_into_bands: the loop index i
    bin_start,        \* group_into_bands: bin_start of band i
    bin_end,          \* group_into_bands: bin_end of band i
    source,           \* SampleCapture: what the wrapped source still holds
    yielded,          \* SampleCapture: what next() has returned so far
    poisoned,         \* the ring buffer's mutex is poisoned
    snap_len,         \* FftProcessor::compute: samples.len()
    fft_size,         \* FftProcessor::compute: fft_size, 0 before the call
    dropped,          \* the MusicPlayer, and with it the Sender, is dropped
    stream,           \* the audio thread's OutputStream
    metadata,         \* App: player.metadata, NoMeta = None
    elapsed,          \* App: elapsed seconds
    duration,         \* App: track duration in seconds
    meta_queue,       \* the metadata channel (meta_tx -> meta_rx)
    loaders,          \* the metadata loader threads still running
    toggle_read       \* TogglePause: what is_paused() returned, "none"
                      \* outside the handler

vizVars == <<smoothed_magnitudes, peak_holds, min_db, max_db, cycles, level,
             lock, vpc>>

bandVars == <<spectrum_size, band, bin_start, bin_end>>

capVars == <<source, yielded, poisoned>>

fftVars == <<snap_len, fft_size>>

dropVars == <<dropped, stream>>

appVars == <<metadata, elapsed, duration, meta_queue, loaders, toggle_read>>

restVars == <<capVars, fftVars, dropVars, appVars>>

vars == <<cmd_queue, issued, handled, is_playing_flag, is_paused_flag,
          sample_buffer, mode, wpc, cmd, sink, sess, inflight, snap, pushed,
          vizVars, bandVars, restVars>>

playerVars == <<cmd_queue, issued, handled, is_playing_flag, is_paused_flag,
                mode, wpc, cmd, sink, sess, inflight>>

----------------------------------------------------------------------------
(* Paths the UI can ask for: two files that open and decode, one that does *)
(* not (File::open or Decoder::new fails).                                 *)
Openable == {"A", "B"}
Paths == Openable \cup {"bad"}

NoMeta == [path |-> "", duration_secs |-> 0]

NoCmd == [op |-> "None", path |-> ""]
PlayCmd(p) == [op |-> "Play", path |-> p]
PauseCmd == [op |-> "Pause", path |-> ""]
ResumeCmd == [op |-> "Resume", path |-> ""]
StopCmd == [op |-> "Stop", path |-> ""]

Last(s) == s[Len(s)]

----------------------------------------------------------------------------
(* HeapRb operations used by the program.                                  *)
IsFull(b) == Len(b) >= Capacity

TryPop(b) == IF b = <<>> THEN b ELSE Tail(b)

TryPush(b, v) == IF IsFull(b) THEN b ELSE Append(b, v)

Clear(b) == <<>>

(* The locked section of SampleCapture::next.                              *)
Push_NoEvict(b, v) == Append(b, v)

Push_DropNew(b, v) == TryPush(b, v)

Push(b, v) == TryPush(IF IsFull(b) THEN TryPop(b) ELSE b, v)

(* `if let Ok(mut buf) = buffer.lock()`: lock() is an Err on a poisoned    *)
(* mutex, and then the push of SampleCapture::next and the clear of the    *)
(* Play handler are skipped.                                               *)
CapturePush(b, v, ok) == IF ok THEN Push(b, v) ELSE b

ClearIfLocked_Always(b, ok) == Clear(b)

ClearIfLocked(b, ok) == IF ok THEN Clear(b) ELSE b

(* What SampleCapture::next returns for a sample of the wrapped source,    *)
(* and for its end.                                                        *)
NextItem_OnlyIfPushed(v, ok) == IF ok THEN <<v>> ELSE <<>>

NextItem(v, ok) == <<v>>

NoSample == 0 - 1

Min(a, b) == IF a < b THEN a ELSE b

(* The locked section of Visualizer::update: <<>> when fewer than          *)
(* MinSamples are available, else the newest min(available, SnapMax).      *)
Snapshot_Oldest(b) ==
    IF Len(b) < MinSamples THEN <<>> ELSE SubSeq(b, 1, Min(Len(b), SnapMax))

Snapshot(b) ==
    LET available == Len(b)
        sample_count == Min(available, SnapMax)
        start == available - sample_count
    IN  IF available < MinSamples THEN <<>>
        ELSE SubSeq(b, start + 1, start + sample_count)

----------------------------------------------------------------------------
(* The analyzer (FftProcessor) and the visualization state (Visualizer).   *)
(* Decibel values are fixed point numbers with DbUnit units per dB and     *)
(* normalised magnitudes are fixed point numbers with Unit units for 1.0;  *)
(* every product is rounded down, as a strictly decreasing f32 product is. *)
(* The FFT itself is not computed: a frame is a flat spectrum, every bin   *)
(* of it at one level, and an all-zero frame has every bin at SilenceDb.   *)
DbUnit == 1000
Unit == 64
MaxCycles == 2

NumBands == 64
SeedMinDb == -80
SeedMaxDb == -10
SilenceDb == -200
EmptyBandDb == -80
FloorDb == -30
WindowDb == 60
SensKeepPct == 90
SmoothingPct == 70
PeakDecayPct == 87
SkipDecayPct_AsPeak == PeakDecayPct
SkipDecayPct == 90
AnalysisMin == 512
AnalysisMax == 2048
FftCap == 2048

Bands == 0 .. (NumBands - 1)

Max(a, b) == IF a >= b THEN a ELSE b

Pct(x, p) == (x * p) \div 100

RECURSIVE NextPowerOfTwo(_)
NextPowerOfTwo(n) == IF n <= 1 THEN 1 ELSE 2 * NextPowerOfTwo((n + 1) \div 2)

(* The largest power of two that is at most n, capped the same way.        *)
FftSize_Floor(n) ==
    Min(IF NextPowerOfTwo(n) = n THEN n ELSE NextPowerOfTwo(n) \div 2, FftCap)

FftSize(n) == Min(NextPowerOfTwo(n), FftCap)

(* samples.iter().take(fft_size): how many of n samples enter the FFT.     *)
Taken(n, f) == Min(n, f)

SpectrumSizes == {FftSize(n) \div 2 : n \in AnalysisMin .. AnalysisMax}

(* trunc(((k / num_bands) ^ 2.5) * spectrum_size): the square root of      *)
(* k^5 * S^2 / num_bands^5, rounded down.  S is a power of two that        *)
(* divides num_bands^5, so the quotient is taken in two steps.             *)
Pow5(k) == k * k * k * k * k

FreqBin(k, S) ==
    LET q == Pow5(k) \div (Pow5(NumBands) \div (S * S))
    IN  CHOOSE y \in 0 .. S : y * y <= q /\ q < (y + 1) * (y + 1)

BinStart(i, S) == FreqBin(i, S)

BinEnd_Inclusive(i, S) == Min(FreqBin(i + 1, S), S) - 1

BinEnd(i, S) == Min(FreqBin(i + 1, S), S)

BandRanges ==
    [S \in SpectrumSizes |->
        [i \in Bands |-> <<BinStart(i, S), BinEnd(i, S)>>]]

HasBins(i, S) ==
    BandRanges[S][i][1] < BandRanges[S][i][2] /\ BandRanges[S][i][2] <= S

(* bands_db of a flat spectrum at level db *)
BandsDb(db, S) ==
    [i \in Bands |-> IF HasBins(i, S) THEN db ELSE EmptyBandDb * DbUnit]

FrameMax(bands_db) ==
    CHOOSE m \in {bands_db[i] : i \in Bands} :
        \A x \in {bands_db[i] : i \in Bands} : x <= m

TargetMax_NoFloor(frame_max) == frame_max

TargetMax(frame_max) == Max(frame_max, FloorDb * DbUnit)

NextMaxDb_Unfloored(mx, frame_max) ==
    (SensKeepPct * mx + (100 - SensKeepPct) * frame_max) \div 100

NextMaxDb(mx, frame_max) ==
    (SensKeepPct * mx + (100 - SensKeepPct) * TargetMax(frame_max)) \div 100

NextMinDb(mx) == mx - WindowDb * DbUnit

Clamp(x, lo, hi) == IF x < lo THEN lo ELSE IF x > hi THEN hi ELSE x

(* the fifth root of t / Unit, in 1/Unit, rounded down *)
Root5Table ==
    [t \in 0 .. Unit |->
        CHOOSE y \in 0 .. Unit :
            /\ Pow5(y) <= t * Unit * Unit * Unit * Unit
            /\ (y < Unit => Pow5(y + 1) > t * Unit * Unit * Unit * Unit)]

Root5(t) == Root5Table[t]

(* normalized.powf(1.2) *)
Pow12(t) == (t * Root5(t)) \div Unit

Normalize(db, mn, mx) ==
    Pow12(Clamp(((db - mn) * Unit) \div (mx - mn), 0, Unit))

(* FftProcessor::compute on a flat frame: the new max_db and min_db and    *)
(* the normalised magnitudes.                                              *)
Normalized(bands_db, new_max) ==
    [max_db |-> new_max,
     min_db |-> NextMinDb(new_max),
     magnitudes |->
        [i \in Bands |-> Normalize(bands_db[i], NextMinDb(new_max), new_max)]]

(* The singleton sets only name a value that is computed once.            *)
GroupIntoBands(bands_db, mx) ==
    CHOOSE r \in {Normalized(bands_db, new_max) :
                    new_max \in {NextMaxDb(mx, FrameMax(bands_db))}} : TRUE

Compute(mx, db, S) ==
    CHOOSE r \in {GroupIntoBands(bands_db, mx) :
                    bands_db \in {BandsDb(db, S)}} : TRUE

(* The blend with the weight of the new value forgotten.                   *)
Smooth_Unweighted(old, mag) == (SmoothingPct * old + 100 * mag) \div 100

Smooth(old, mag) == (SmoothingPct * old + (100 - SmoothingPct) * mag) \div 100

PeakHold(old, mag) == IF mag > old THEN mag ELSE Pct(old, PeakDecayPct)

(* The levels a frame that is not all zero is given.                       *)
Levels == {(0 - 40) * DbUnit, (0 - 6) * DbUnit}

FrameLevels(samples) ==
    IF \A k \in 1..Len(samples) : samples[k] = 0
    THEN {SilenceDb * DbUnit}
    ELSE Levels

----------------------------------------------------------------------------
InitCore ==
    /\ cmd_queue = <<>>
    /\ issued = <<>>
    /\ handled = <<>>
    /\ is_playing_flag = FALSE
    /\ is_paused_flag = FALSE
    /\ sample_buffer = <<>>
    /\ mode \in {"normal", "drained"}
    /\ wpc = "recv"
    /\ cmd = NoCmd
    /\ sink = 0
    /\ sess = <<>>
    /\ inflight = 0
    /\ snap = <<>>
    /\ pushed = <<>>
    /\ smoothed_magnitudes = [i \in Bands |-> 0]
    /\ peak_holds = [i \in Bands |-> 0]
    /\ min_db = SeedMinDb * DbUnit
    /\ max_db = SeedMaxDb * DbUnit
    /\ cycles = 0
    /\ lock = "none"
    /\ vpc = "idle"
    /\ yielded = <<>>
    /\ poisoned = FALSE
    /\ fft_size = 0
    /\ dropped = FALSE
    /\ stream = IF mode = "normal" THEN "open" ELSE "none"
    /\ metadata = NoMeta
    /\ elapsed = 0
    /\ duration = 1
    /\ meta_queue = <<>>
    /\ loaders = {}
    /\ toggle_read = "none"

(* No source is being captured and no frame is being analysed.             *)
NoSource == [samples |-> <<>>, pos |-> 0]

NoInputs == source = NoSource /\ snap_len = 0

Init ==
    /\ InitCore
    /\ NoInputs
    /\ level = 0
    /\ spectrum_size = 0
    /\ band = 0
    /\ bin_start = 0
    /\ bin_end = 0

----------------------------------------------------------------------------
(* UI thread: MusicPlayer::play / pause / resume / stop send one command.  *)
(* mpsc::channel() is unbounded: send never waits for the receiver.        *)
SendBlocks_Rendezvous(q) == Len(q) >= 1

SendBlocks(q) == FALSE

Enqueue(c) ==
    /\ ~dropped
    /\ Len(issued) < MaxCmds
    /\ ~SendBlocks(cmd_queue)
    /\ cmd_queue' = Append(cmd_queue, c)
    /\ issued' = Append(issued, c)

Send(c) ==
    /\ Enqueue(c)
    /\ UNCHANGED <<handled, is_playing_flag, is_paused_flag, sample_buffer,
                   mode, wpc, cmd, sink, sess, inflight, snap, pushed,
                   vizVars, bandVars, restVars>>

NumPlays(h) == Cardinality({i \in 1..Len(h) : h[i].op = "Play"})

play(p) ==
    /\ NumPlays(issued) < MaxPlays
    /\ Send(PlayCmd(p))

pause == Send(PauseCmd)

resume == Send(ResumeCmd)

stop == Send(StopCmd)

(* UI thread: Visualizer::update copies the newest samples.                *)
update ==
    /\ snap' = Snapshot(sample_buffer)
    /\ UNCHANGED <<playerVars, sample_buffer, pushed, vizVars, bandVars,
                   restVars>>

----------------------------------------------------------------------------
(* The command rx.recv() hands to the loop, and what it leaves in the       *)
(* channel.                                                                *)
RecvLast(q) == [c |-> Last(q), rest |-> SubSeq(q, 1, Len(q) - 1)]

Recv(q) == [c |-> Head(q), rest |-> Tail(q)]

(* Audio thread, drained branch: OutputStream::try_default failed, every   *)
(* command is received and ignored.                                        *)
StreamErr_Never(m) == FALSE

StreamErr(m) == m = "drained"

WDrain ==
    /\ StreamErr(mode)
    /\ cmd_queue # <<>>
    /\ handled' = Append(handled, Recv(cmd_queue).c)
    /\ cmd_queue' = Recv(cmd_queue).rest
    /\ UNCHANGED <<issued, is_playing_flag, is_paused_flag, sample_buffer,
                   mode, wpc, cmd, sink, sess, inflight, snap, pushed,
                   vizVars, bandVars, restVars>>

FirstPc(c) ==
    CASE c.op = "Play" -> "play_stop"
      [] c.op = "Pause" -> "pause"
      [] c.op = "Resume" -> "resume"
      [] c.op = "Stop" -> "stop_take"

(* Audio thread: `while let Ok(cmd) = rx.recv()` and the match on cmd.     *)
WRecv ==
    /\ ~StreamErr(mode)
    /\ wpc = "recv"
    /\ cmd_queue # <<>>
    /\ cmd' = Recv(cmd_queue).c
    /\ cmd_queue' = Recv(cmd_queue).rest
    /\ handled' = Append(handled, cmd')
    /\ wpc' = FirstPc(cmd')
    /\ UNCHANGED <<issued, is_playing_flag, is_paused_flag, sample_buffer,
                   mode, sink, sess, inflight, snap, pushed,
                   vizVars, bandVars, restVars>>

(* Sink::stop (and Sink's Drop): raises the sink's stop flag; the device   *)
(* thread acts on it at its next periodic access.                          *)
StopSink_Noop(ss, s) == ss

StopSink(ss, s) == [ss EXCEPT ![s].stopped = TRUE]

(* `if let Some(s) = sink.take() { s.stop(); }`                            *)
TakeAndStop_Keep(ss, s) == ss

TakeAndStop(ss, s) == IF s = 0 THEN ss ELSE StopSink(ss, s)

(* Play: stop the previous sink.                                           *)
WPlayStop ==
    /\ wpc = "play_stop"
    /\ sess' = TakeAndStop(sess, sink)
    /\ sink' = 0
    /\ wpc' = "play_clear"
    /\ UNCHANGED <<cmd_queue, issued, handled, is_playing_flag,
                   is_paused_flag, sample_buffer, mode, cmd, inflight, snap,
                   pushed, vizVars, bandVars, restVars>>

(* Play: lock the sample buffer and clear it.                              *)
WPlayClear ==
    /\ wpc = "play_clear"
    /\ sample_buffer' = ClearIfLocked(sample_buffer, ~poisoned)
    /\ wpc' = "play_open"
    /\ UNCHANGED <<cmd_queue, issued, handled, is_playing_flag,
                   is_paused_flag, mode, cmd, sink, sess, inflight, snap,
                   pushed, vizVars, bandVars, restVars>>

(* Sink::try_new, File::open and Decoder::new all succeed.  The output     *)
(* stream is owned by this thread, so Sink::try_new finds the device; the  *)
(* path decides the other two.                                             *)
Opens(p) == p \in Openable

(* The sink made for the n-th command received.                           *)
NewSession(c, n) ==
    [path |-> c.path, cmd_no |-> n, stopped |-> FALSE, paused |-> FALSE,
     dpaused |-> FALSE, live |-> TRUE]

(* Play: open the file; on success append the capturing source to the new  *)
(* sink and start it, on failure fall out of the nested if-lets.           *)
WPlayOpen ==
    /\ wpc = "play_open"
    /\ IF Opens(cmd.path)
       THEN /\ sess' = Append(sess, NewSession(cmd, Len(handled)))
            /\ wpc' = "play_ap"
            /\ cmd' = cmd
       ELSE /\ sess' = sess
            /\ wpc' = "recv"
            /\ cmd' = NoCmd
    /\ UNCHANGED <<cmd_queue, issued, handled, is_playing_flag,
                   is_paused_flag, sample_buffer, mode, sink, inflight, snap,
                   pushed, vizVars, bandVars, restVars>>

(* Play: ap.store(true)                                                    *)
WPlayAp ==
    /\ wpc = "play_ap"
    /\ is_playing_flag' = TRUE
    /\ wpc' = "play_az"
    /\ UNCHANGED <<cmd_queue, issued, handled, is_paused_flag, sample_buffer,
                   mode, cmd, sink, sess, inflight, snap, pushed,
                   vizVars, bandVars, restVars>>

(* Play: az.store(false); sink = Some(new_sink)                            *)
WPlayAz ==
    /\ wpc = "play_az"
    /\ is_paused_flag' = FALSE
    /\ sink' = Len(sess)
    /\ wpc' = "recv"
    /\ cmd' = NoCmd
    /\ UNCHANGED <<cmd_queue, issued, handled, is_playing_flag,
                   sample_buffer, mode, sess, inflight, snap, pushed,
                   vizVars, bandVars, restVars>>

(* Sink::pause / Sink::play: the sink's pause control.                     *)
SetPaused(ss, s, b) == [ss EXCEPT ![s].paused = b]

(* Pause: `if let Some(s) = &sink { s.pause(); ... }`                      *)
WPause ==
    /\ wpc = "pause"
    /\ IF sink # 0
       THEN /\ sess' = SetPaused(sess, sink, TRUE)
            /\ wpc' = "pause_az"
            /\ cmd' = cmd
       ELSE /\ sess' = sess
            /\ wpc' = "recv"
            /\ cmd' = NoCmd
    /\ UNCHANGED <<cmd_queue, issued, handled, is_playing_flag,
                   is_paused_flag, sample_buffer, mode, sink, inflight, snap,
                   pushed, vizVars, bandVars, restVars>>

(* Pause: az.store(true)                                                   *)
PauseFlag_Wrong == FALSE

PauseFlag == TRUE

WPauseAz ==
    /\ wpc = "pause_az"
    /\ is_paused_flag' = PauseFlag
    /\ wpc' = "recv"
    /\ cmd' = NoCmd
    /\ UNCHANGED <<cmd_queue, issued, handled, is_playing_flag,
                   sample_buffer, mode, sink, sess, inflight, snap, pushed,
                   vizVars, bandVars, restVars>>

(* Resume: `if let Some(s) = &sink { s.play(); ... }`                      *)
WResume ==
    /\ wpc = "resume"
    /\ IF sink # 0
       THEN /\ sess' = SetPaused(sess, sink, FALSE)
            /\ wpc' = "resume_az"
            /\ cmd' = cmd
       ELSE /\ sess' = sess
            /\ wpc' = "recv"
            /\ cmd' = NoCmd
    /\ UNCHANGED <<cmd_queue, issued, handled, is_playing_flag,
                   is_paused_flag, sample_buffer, mode, sink, inflight, snap,
                   pushed, vizVars, bandVars, restVars>>

(* Resume: az.store(false)                                                 *)
ResumeFlag_Wrong == is_paused_flag

ResumeFlag == FALSE

WResumeAz ==
    /\ wpc = "resume_az"
    /\ is_paused_flag' = ResumeFlag
    /\ wpc' = "recv"
    /\ cmd' = NoCmd
    /\ UNCHANGED <<cmd_queue, issued, handled, is_playing_flag,
                   sample_buffer, mode, sink, sess, inflight, snap, pushed,
                   vizVars, bandVars, restVars>>

(* Stop: `if let Some(s) = sink.take() { s.stop(); }`                      *)
WStopTake ==
    /\ wpc = "stop_take"
    /\ sess' = TakeAndStop(sess, sink)
    /\ sink' = 0
    /\ wpc' = "stop_ap"
    /\ UNCHANGED <<cmd_queue, issued, handled, is_playing_flag,
                   is_paused_flag, sample_buffer, mode, cmd, inflight, snap,
                   pushed, vizVars, bandVars, restVars>>

(* Stop: ap.store(false)                                                   *)
StopFlag_Wrong == is_playing_flag

StopFlag == FALSE

WStopAp ==
    /\ wpc = "stop_ap"
    /\ is_playing_flag' = StopFlag
    /\ wpc' = "stop_az"
    /\ UNCHANGED <<cmd_queue, issued, handled, is_paused_flag, sample_buffer,
                   mode, cmd, sink, sess, inflight, snap, pushed,
                   vizVars, bandVars, restVars>>

(* Stop: az.store(false)                                                   *)
WStopAz ==
    /\ wpc = "stop_az"
    /\ is_paused_flag' = FALSE
    /\ wpc' = "recv"
    /\ cmd' = NoCmd
    /\ UNCHANGED <<cmd_queue, issued, handled, is_playing_flag,
                   sample_buffer, mode, sink, sess, inflight, snap, pushed,
                   vizVars, bandVars, restVars>>

----------------------------------------------------------------------------
(* Output-device thread.  It pulls one sample at a time from every source  *)
(* that is in the mixer; a sink's stop and pause controls reach the source *)
(* at its periodic access, not at the call.                                *)
Sessions == 1..Len(sess)

(* The source is dropped by the mixer: it is pulled no more.               *)
Leave(ss, s) == [ss EXCEPT ![s].live = FALSE, ![s].dpaused = FALSE]

(* SampleCapture::next, first half: self.source.next() returned a sample.  *)
DevNext(s) ==
    /\ inflight = 0
    /\ sess[s].live
    /\ ~sess[s].dpaused
    /\ inflight' = s
    /\ UNCHANGED <<cmd_queue, issued, handled, is_playing_flag,
                   is_paused_flag, sample_buffer, mode, wpc, cmd, sink, sess,
                   snap, pushed, vizVars, bandVars, restVars>>

(* SampleCapture::next, second half: lock the buffer, make room, push, and *)
(* hand the sample to the device.  A sample is tagged with its session.    *)
DevPush(s) ==
    /\ inflight = s
    /\ sample_buffer' = CapturePush(sample_buffer, s, ~poisoned)
    /\ inflight' = 0
    /\ UNCHANGED <<cmd_queue, issued, handled, is_playing_flag,
                   is_paused_flag, mode, wpc, cmd, sink, sess, snap, pushed,
                   vizVars, bandVars, restVars>>

(* SampleCapture::next: self.source.next() returned None, the track is     *)
(* over and the source leaves the mixer.                                   *)
DevEnd(s) ==
    /\ inflight = 0
    /\ sess[s].live
    /\ ~sess[s].dpaused
    /\ sess' = Leave(sess, s)
    /\ UNCHANGED <<cmd_queue, issued, handled, is_playing_flag,
                   is_paused_flag, sample_buffer, mode, wpc, cmd, sink,
                   inflight, snap, pushed, vizVars, bandVars, restVars>>

(* The source's periodic access: a stopped sink's source leaves the mixer, *)
(* otherwise the pause control is taken over.                              *)
DevSync(s) ==
    /\ inflight = 0
    /\ sess[s].live
    /\ \/ sess[s].stopped
       \/ sess[s].dpaused # sess[s].paused
    /\ sess' = IF sess[s].stopped
               THEN Leave(sess, s)
               ELSE [sess EXCEPT ![s].dpaused = sess[s].paused]
    /\ UNCHANGED <<cmd_queue, issued, handled, is_playing_flag,
                   is_paused_flag, sample_buffer, mode, wpc, cmd, sink,
                   inflight, snap, pushed, vizVars, bandVars, restVars>>

----------------------------------------------------------------------------
(* Visualizer::update only reads the buffer: what it copies in a state is  *)
(* Snapshot(sample_buffer).  The step itself is part of NextRing below.    *)
Next ==
    \/ \E p \in Paths : play(p)
    \/ pause
    \/ resume
    \/ stop
    \/ WDrain
    \/ WRecv
    \/ WPlayStop
    \/ WPlayClear
    \/ WPlayOpen
    \/ WPlayAp
    \/ WPlayAz
    \/ WPause
    \/ WPauseAz
    \/ WResume
    \/ WResumeAz
    \/ WStopTake
    \/ WStopAp
    \/ WStopAz
    \/ \E s \in Sessions : DevNext(s)
    \/ \E s \in Sessions : DevPush(s)
    \/ \E s \in Sessions : DevEnd(s)
    \/ \E s \in Sessions : DevSync(s)

Spec == Init /\ [][Next]_vars

----------------------------------------------------------------------------
(* The ring buffer alone: SampleCapture::next pushing any sample, the Play *)
(* handler's clear and Visualizer::update's copy, in any order.  Each of   *)
(* the three runs under the buffer's mutex.                                *)
Samples == 0..MaxSample

RingPush(v) ==
    /\ Len(pushed) < MaxPushes
    /\ sample_buffer' = Push(sample_buffer, v)
    /\ pushed' = Append(pushed, v)
    /\ UNCHANGED <<playerVars, snap, vizVars, bandVars, restVars>>

RingClear ==
    /\ sample_buffer' = Clear(sample_buffer)
    /\ pushed' = <<>>
    /\ UNCHANGED <<playerVars, snap, vizVars, bandVars, restVars>>

NextRing ==
    \/ \E v \in Samples : RingPush(v)
    \/ RingClear
    \/ update

SpecRing == Init /\ [][NextRing]_vars

----------------------------------------------------------------------------
(* The SampleCapture of music_player.rs, the copy of the player the TUI    *)
(* loop uses: its next() calls try_push alone, and nothing ever pops.      *)
PushOnly(b, v) == TryPush(b, v)

OldRingPush(v) ==
    /\ Len(pushed) < MaxPushes
    /\ sample_buffer' = PushOnly(sample_buffer, v)
    /\ pushed' = Append(pushed, v)
    /\ UNCHANGED <<playerVars, snap, vizVars, bandVars, restVars>>

NextOldRing ==
    \/ \E v \in Samples : OldRingPush(v)
    \/ RingClear

SpecOldRing == Init /\ [][NextOldRing]_vars

----------------------------------------------------------------------------
(* Visualizer::update step by step, with the ring buffer's mutex, next to  *)
(* the pushes of the device thread and the clear of the audio thread; both *)
(* of those take the mutex for the one operation.                          *)
VizPush(v) ==
    /\ lock = "none"
    /\ sample_buffer' = Push(sample_buffer, v)
    /\ UNCHANGED <<playerVars, snap, pushed, vizVars, bandVars, restVars>>

VizClear ==
    /\ lock = "none"
    /\ sample_buffer' = Clear(sample_buffer)
    /\ UNCHANGED <<playerVars, snap, pushed, vizVars, bandVars, restVars>>

(* sample_buffer.lock() *)
VizLock ==
    /\ vpc = "idle"
    /\ cycles < MaxCycles
    /\ lock = "none"
    /\ ~poisoned
    /\ lock' = "ui"
    /\ vpc' = "locked"
    /\ cycles' = cycles + 1
    /\ UNCHANGED <<playerVars, sample_buffer, snap, pushed,
                   smoothed_magnitudes, peak_holds, min_db, max_db, level,
                   bandVars, restVars>>

(* sample_buffer.lock() is an Err: update returns at once.                 *)
VizLockErr ==
    /\ vpc = "idle"
    /\ cycles < MaxCycles
    /\ lock = "none"
    /\ poisoned
    /\ cycles' = cycles + 1
    /\ UNCHANGED <<playerVars, sample_buffer, snap, pushed,
                   smoothed_magnitudes, peak_holds, min_db, max_db, level,
                   lock, vpc, bandVars, restVars>>

(* The skipped cycle with the analyzer's sensitivity adapted all the same. *)
VizSkip_Adapt ==
    /\ vpc = "locked"
    /\ Len(sample_buffer) < MinSamples
    /\ smoothed_magnitudes' =
            [i \in Bands |-> Pct(smoothed_magnitudes[i], SkipDecayPct)]
    /\ peak_holds' = [i \in Bands |-> Pct(peak_holds[i], PeakDecayPct)]
    /\ max_db' = NextMaxDb(max_db, EmptyBandDb * DbUnit)
    /\ min_db' = NextMinDb(max_db')
    /\ lock' = "none"
    /\ vpc' = "idle"
    /\ UNCHANGED <<playerVars, sample_buffer, snap, pushed, cycles, level,
                   bandVars, restVars>>

(* available < 512: decay every band and return; the guard is dropped at   *)
(* the return.                                                             *)
VizSkip ==
    /\ vpc = "locked"
    /\ Len(sample_buffer) < MinSamples
    /\ smoothed_magnitudes' =
            [i \in Bands |-> Pct(smoothed_magnitudes[i], SkipDecayPct)]
    /\ peak_holds' = [i \in Bands |-> Pct(peak_holds[i], PeakDecayPct)]
    /\ lock' = "none"
    /\ vpc' = "idle"
    /\ UNCHANGED <<playerVars, sample_buffer, snap, pushed, min_db, max_db,
                   cycles, level, bandVars, restVars>>

(* The copy of the newest samples; the guard is dropped at the end of the  *)
(* block.                                                                  *)
VizCopy ==
    /\ vpc = "locked"
    /\ Len(sample_buffer) >= MinSamples
    /\ snap' = Snapshot(sample_buffer)
    /\ lock' = "none"
    /\ vpc' = "analyze"
    /\ UNCHANGED <<playerVars, sample_buffer, pushed, smoothed_magnitudes,
                   peak_holds, min_db, max_db, cycles, level, bandVars,
                   restVars>>

(* fft_processor.compute(&samples) and the smoothing and peak loop, for a  *)
(* frame at level db analysed with S spectrum bins.                        *)
Analyze(db, S) ==
    \E c \in {Compute(max_db, db, S)} :
        /\ max_db' = c.max_db
        /\ min_db' = c.min_db
        /\ smoothed_magnitudes' =
                [i \in Bands |->
                    Smooth(smoothed_magnitudes[i], c.magnitudes[i])]
        /\ peak_holds' =
                [i \in Bands |-> PeakHold(peak_holds[i], c.magnitudes[i])]

VizAnalyze ==
    /\ vpc = "analyze"
    /\ \E db \in FrameLevels(snap), S \in SpectrumSizes : Analyze(db, S)
    /\ vpc' = "idle"
    /\ UNCHANGED <<playerVars, sample_buffer, snap, pushed, cycles, level,
                   lock, bandVars, restVars>>

NextViz ==
    \/ \E v \in {0, 1} : VizPush(v)
    \/ VizClear
    \/ VizLock
    \/ VizSkip
    \/ VizCopy
    \/ VizAnalyze

(* Samples are pushed only when the output device was opened.              *)
InitViz == Init /\ mode = "normal"

SpecViz == InitViz /\ [][NextViz]_vars

----------------------------------------------------------------------------
(* The analyzer fed one constant frame cycle after cycle: every update     *)
(* finds enough samples and analyses a flat frame at `level` with          *)
(* spectrum_size bins.                                                     *)
SensLevels ==
    {0, (0 - 10) * DbUnit, (0 - 20) * DbUnit, (0 - 30) * DbUnit,
     (0 - 31) * DbUnit, (0 - 40) * DbUnit, (0 - 60) * DbUnit,
     SilenceDb * DbUnit}

InitSens ==
    /\ InitCore
    /\ NoInputs
    /\ mode = "normal"
    /\ level \in SensLevels
    /\ spectrum_size \in SpectrumSizes
    /\ band = 0
    /\ bin_start = 0
    /\ bin_end = 0

SensCycle ==
    /\ Analyze(level, spectrum_size)
    /\ UNCHANGED <<playerVars, sample_buffer, snap, pushed, cycles, level,
                   lock, vpc, bandVars, restVars>>

NextSens == SensCycle

SpecSens == InitSens /\ [][NextSens]_vars /\ WF_vars(SensCycle)

----------------------------------------------------------------------------
(* group_into_bands' loop over the bands, for each spectrum size the       *)
(* analyzer can be given.                                                  *)
InitBands ==
    /\ InitCore
    /\ NoInputs
    /\ mode = "normal"
    /\ level = 0
    /\ spectrum_size \in SpectrumSizes
    /\ band = 0
    /\ bin_start = BinStart(0, spectrum_size)
    /\ bin_end = BinEnd(0, spectrum_size)

BandStep ==
    /\ band < NumBands - 1
    /\ band' = band + 1
    /\ bin_start' = BinStart(band', spectrum_size)
    /\ bin_end' = BinEnd(band', spectrum_size)
    /\ UNCHANGED <<playerVars, sample_buffer, snap, pushed, vizVars,
                   spectrum_size, restVars>>

NextBands == BandStep

SpecBands == InitBands /\ [][NextBands]_vars

----------------------------------------------------------------------------
(* FftProcessor::compute's choice of the FFT size, for each snapshot       *)
(* length Visualizer::update can hand it: update analyses only when the    *)
(* ring holds at least AnalysisMin samples and copies at most AnalysisMax  *)
(* of the up to RingCapacity it holds.                                     *)
RingCapacity == 16384

SnapLengths == {Min(available, AnalysisMax) : available \in AnalysisMin .. RingCapacity}

InitFft ==
    /\ InitCore
    /\ mode = "normal"
    /\ source = NoSource
    /\ snap_len \in SnapLengths
    /\ level = 0
    /\ spectrum_size = 0
    /\ band = 0
    /\ bin_start = 0
    /\ bin_end = 0

FftCompute ==
    /\ fft_size = 0
    /\ fft_size' = FftSize(snap_len)
    /\ spectrum_size' = fft_size' \div 2
    /\ UNCHANGED <<playerVars, sample_buffer, snap, pushed, vizVars, band,
                   bin_start, bin_end, capVars, snap_len, dropVars,
                   appVars>>

NextFft == FftCompute

SpecFft == InitFft /\ [][NextFft]_vars

----------------------------------------------------------------------------
(* One SampleCapture pulled by the device thread to the end of its source, *)
(* next to the Play handler and the calls of Visualizer::update that find *)
(* the mutex poisoned, which it may become at any moment.                  *)
MaxSource == 4

SeqsUpTo(S, n) == UNION {[1..k -> S] : k \in 0..n}

InitCapture ==
    /\ InitCore
    /\ mode = "normal"
    /\ source \in [samples : SeqsUpTo({0, 1}, MaxSource), pos : {0}]
    /\ snap_len = 0
    /\ level = 0
    /\ spectrum_size = 0
    /\ band = 0
    /\ bin_start = 0
    /\ bin_end = 0

(* SampleCapture::next, the wrapped source has a sample.                   *)
CapNext ==
    /\ sess # <<>>
    /\ lock = "none"
    /\ source.pos < Len(source.samples)
    /\ \E v \in {source.samples[source.pos + 1]} :
        /\ source' = [source EXCEPT !.pos = @ + 1]
        /\ sample_buffer' = CapturePush(sample_buffer, v, ~poisoned)
        /\ yielded' = yielded \o NextItem(v, ~poisoned)
    /\ UNCHANGED <<playerVars, snap, pushed, vizVars, bandVars, poisoned,
                   fftVars, dropVars, appVars>>

(* SampleCapture::next, the wrapped source is over: None.                  *)
CapEnd ==
    /\ sess # <<>>
    /\ source.pos = Len(source.samples)
    /\ ~(Len(yielded) > 0 /\ Last(yielded) = NoSample)
    /\ yielded' = Append(yielded, NoSample)
    /\ UNCHANGED <<playerVars, sample_buffer, snap, pushed, vizVars,
                   bandVars, source, poisoned, fftVars, dropVars,
                   appVars>>

(* A thread panicked with the guard in hand.                               *)
Poison ==
    /\ ~poisoned
    /\ lock = "none"
    /\ poisoned' = TRUE
    /\ UNCHANGED <<playerVars, sample_buffer, snap, pushed, vizVars,
                   bandVars, source, yielded, fftVars, dropVars,
                   appVars>>

NextCapture ==
    \/ play("A")
    \/ WRecv
    \/ WPlayStop
    \/ WPlayClear
    \/ WPlayOpen
    \/ WPlayAp
    \/ WPlayAz
    \/ CapNext
    \/ CapEnd
    \/ Poison
    \/ VizLockErr

SpecCapture == InitCapture /\ [][NextCapture]_vars

----------------------------------------------------------------------------
(* The MusicPlayer is dropped at some moment, and with it cmd_tx, the only *)
(* Sender: rx.recv() returns Err once the queue is empty, which ends the   *)
(* loop of either branch of the audio thread.                              *)
Disconnected_AtOnce(q, d) == d

Disconnected(q, d) == d /\ q = <<>>

Drop ==
    /\ ~dropped
    /\ dropped' = TRUE
    /\ UNCHANGED <<playerVars, sample_buffer, snap, pushed, vizVars,
                   bandVars, capVars, fftVars, stream, appVars>>

(* Drained branch: `while rx.recv().is_ok() {}` ends, return.              *)
WDrainEnd ==
    /\ StreamErr(mode)
    /\ wpc = "recv"
    /\ Disconnected(cmd_queue, dropped)
    /\ wpc' = "exited"
    /\ UNCHANGED <<cmd_queue, issued, handled, is_playing_flag,
                   is_paused_flag, sample_buffer, mode, cmd, sink, sess,
                   inflight, snap, pushed, vizVars, bandVars, restVars>>

(* `while let Ok(cmd) = rx.recv()` ends.                                   *)
WRecvErr ==
    /\ ~StreamErr(mode)
    /\ wpc = "recv"
    /\ Disconnected(cmd_queue, dropped)
    /\ wpc' = "exit_stop"
    /\ UNCHANGED <<cmd_queue, issued, handled, is_playing_flag,
                   is_paused_flag, sample_buffer, mode, cmd, sink, sess,
                   inflight, snap, pushed, vizVars, bandVars, restVars>>

(* After the loop: `if let Some(s) = sink.take() { s.stop(); }`            *)
WExitStop ==
    /\ wpc = "exit_stop"
    /\ sess' = TakeAndStop(sess, sink)
    /\ sink' = 0
    /\ wpc' = "exit_drop"
    /\ UNCHANGED <<cmd_queue, issued, handled, is_playing_flag,
                   is_paused_flag, sample_buffer, mode, cmd, inflight, snap,
                   pushed, vizVars, bandVars, restVars>>

(* drop(stream), and the closure returns.                                  *)
WExitDrop ==
    /\ wpc = "exit_drop"
    /\ stream' = "released"
    /\ wpc' = "exited"
    /\ UNCHANGED <<cmd_queue, issued, handled, is_playing_flag,
                   is_paused_flag, sample_buffer, mode, cmd, sink, sess,
                   inflight, snap, pushed, vizVars, bandVars, capVars,
                   fftVars, dropped, appVars>>

(* The audio thread's steps: it blocks nowhere but in rx.recv().           *)
AudioThread ==
    \/ WDrain
    \/ WDrainEnd
    \/ WRecv
    \/ WRecvErr
    \/ WPlayStop
    \/ WPlayClear
    \/ WPlayOpen
    \/ WPlayAp
    \/ WPlayAz
    \/ WPause
    \/ WPauseAz
    \/ WResume
    \/ WResumeAz
    \/ WStopTake
    \/ WStopAp
    \/ WStopAz
    \/ WExitStop
    \/ WExitDrop

NextDrop ==
    \/ \E p \in Paths : play(p)
    \/ pause
    \/ resume
    \/ stop
    \/ Drop
    \/ AudioThread

SpecDrop == Init /\ [][NextDrop]_vars /\ WF_vars(AudioThread)

----------------------------------------------------------------------------
(* The player with its threads scheduled fairly: the audio thread and the  *)
(* device callback keep running, the UI may fall silent at any moment.     *)
Device ==
    \E s \in Sessions : DevNext(s) \/ DevPush(s) \/ DevEnd(s) \/ DevSync(s)

SpecFair == Init /\ [][Next]_vars /\ WF_vars(AudioThread) /\ WF_vars(Device)

----------------------------------------------------------------------------
(* The App of app/state.rs on the UI thread, its metadata loader threads   *)
(* and the audio thread.  The UI thread runs one handler at a time.        *)
MaxDuration == 2

(* The duration each file's tags give: a long track, a shorter one, and    *)
(* one without a duration.                                                 *)
TagSecs(p) ==
    CASE p = "A" -> MaxDuration
      [] p = "B" -> MaxDuration - 1
      [] OTHER -> 0

Meta(l) == [path |-> l.path, duration_secs |-> l.duration_secs]

(* Enter on an audio entry, and play_adjacent_track: play, reset, spawn    *)
(* the loader.                                                             *)
AppPlay(p) ==
    /\ toggle_read = "none"
    /\ NumPlays(issued) < MaxPlays
    /\ Enqueue(PlayCmd(p))
    /\ metadata' = NoMeta
    /\ elapsed' = 0
    /\ duration' = 1
    /\ loaders' = loaders \cup
            {[path |-> p, duration_secs |-> TagSecs(p),
              no |-> Len(issued) + 1]}
    /\ UNCHANGED <<handled, is_playing_flag, is_paused_flag, sample_buffer,
                   mode, wpc, cmd, sink, sess, inflight, snap, pushed,
                   vizVars, bandVars, capVars, fftVars, dropVars, meta_queue,
                   toggle_read>>

(* The Stop key.                                                           *)
AppStop ==
    /\ toggle_read = "none"
    /\ Enqueue(StopCmd)
    /\ elapsed' = 0
    /\ UNCHANGED <<handled, is_playing_flag, is_paused_flag, sample_buffer,
                   mode, wpc, cmd, sink, sess, inflight, snap, pushed,
                   vizVars, bandVars, capVars, fftVars, dropVars, metadata,
                   duration, meta_queue, loaders, toggle_read>>

(* TogglePause, first half: `if self.player.is_paused()`.                  *)
ToggleRead ==
    /\ toggle_read = "none"
    /\ Len(issued) < MaxCmds
    /\ toggle_read' = IF is_paused_flag THEN "paused" ELSE "unpaused"
    /\ UNCHANGED <<playerVars, sample_buffer, snap, pushed, vizVars,
                   bandVars, capVars, fftVars, dropVars, metadata, elapsed,
                   duration, meta_queue, loaders>>

(* TogglePause, second half: resume() or pause().                          *)
ToggleCmd(r) == IF r = "paused" THEN ResumeCmd ELSE PauseCmd

ToggleSend ==
    /\ toggle_read # "none"
    /\ Enqueue(ToggleCmd(toggle_read))
    /\ toggle_read' = "none"
    /\ UNCHANGED <<handled, is_playing_flag, is_paused_flag, sample_buffer,
                   mode, wpc, cmd, sink, sess, inflight, snap, pushed,
                   vizVars, bandVars, capVars, fftVars, dropVars, metadata,
                   elapsed, duration, meta_queue, loaders>>

(* A loader thread: load_metadata returned Ok, the result is sent.         *)
LoaderSend(l) ==
    /\ l \in loaders
    /\ loaders' = loaders \ {l}
    /\ meta_queue' = Append(meta_queue, Meta(l))
    /\ UNCHANGED <<playerVars, sample_buffer, snap, pushed, vizVars,
                   bandVars, capVars, fftVars, dropVars, metadata, elapsed,
                   duration, toggle_read>>

(* A loader thread: load_metadata returned Err, nothing is sent.           *)
LoaderFail(l) ==
    /\ l \in loaders
    /\ loaders' = loaders \ {l}
    /\ UNCHANGED <<playerVars, sample_buffer, snap, pushed, vizVars,
                   bandVars, capVars, fftVars, dropVars, metadata, elapsed,
                   duration, meta_queue, toggle_read>>

(* App::process_metadata with a message waiting.                           *)
ProcessMetadata ==
    /\ toggle_read = "none"
    /\ meta_queue # <<>>
    /\ metadata' = Head(meta_queue)
    /\ duration' = Max(Head(meta_queue).duration_secs, 1)
    /\ meta_queue' = Tail(meta_queue)
    /\ UNCHANGED <<playerVars, sample_buffer, snap, pushed, vizVars,
                   bandVars, capVars, fftVars, dropVars, elapsed, loaders,
                   toggle_read>>

(* App::tick_elapsed.                                                      *)
Ticking_Always == TRUE

Ticking == is_playing_flag /\ ~is_paused_flag

TickElapsed ==
    /\ toggle_read = "none"
    /\ Ticking
    /\ elapsed' = Min(elapsed + 1, duration)
    /\ UNCHANGED <<playerVars, sample_buffer, snap, pushed, vizVars,
                   bandVars, capVars, fftVars, dropVars, metadata, duration,
                   meta_queue, loaders, toggle_read>>

InitApp == Init /\ mode = "normal"

NextApp ==
    \/ \E p \in Paths : AppPlay(p)
    \/ AppStop
    \/ ToggleRead
    \/ ToggleSend
    \/ \E l \in loaders : LoaderSend(l)
    \/ \E l \in loaders : LoaderFail(l)
    \/ ProcessMetadata
    \/ TickElapsed
    \/ WRecv
    \/ WPlayStop
    \/ WPlayClear
    \/ WPlayOpen
    \/ WPlayAp
    \/ WPlayAz
    \/ WPause
    \/ WPauseAz
    \/ WResume
    \/ WResumeAz
    \/ WStopTake
    \/ WStopAp
    \/ WStopAz

SpecApp == InitApp /\ [][NextApp]_vars

----------------------------------------------------------------------------
(* Two presses of the pause key on a track that is loaded and playing, the *)
(* audio thread idle with nothing queued when the first one is read.       *)
NumToggles(h) == Len(h) - NumPlays(h)

Loaded == sink # 0 /\ wpc = "recv" /\ cmd_queue = <<>>

TogglePlay(p) ==
    /\ NumToggles(issued) = 0
    /\ toggle_read = "none"
    /\ play(p)

ToggleReadLoaded ==
    /\ NumToggles(issued) < 2
    /\ NumToggles(issued) = 0 => Loaded
    /\ ToggleRead

InitToggle == Init /\ mode = "normal"

NextToggle ==
    \/ \E p \in Paths : TogglePlay(p)
    \/ ToggleReadLoaded
    \/ ToggleSend
    \/ WRecv
    \/ WPlayStop
    \/ WPlayClear
    \/ WPlayOpen
    \/ WPlayAp
    \/ WPlayAz
    \/ WPause
    \/ WPauseAz
    \/ WResume
    \/ WResumeAz
    \/ \E s \in Sessions : DevNext(s)
    \/ \E s \in Sessions : DevPush(s)
    \/ \E s \in Sessions : DevEnd(s)
    \/ \E s \in Sessions : DevSync(s)

SpecToggle == InitToggle /\ [][NextToggle]_vars

----------------------------------------------------------------------------
(* Properties.                                                             *)

LastN(q, n) == SubSeq(q, Len(q) - n + 1, Len(q))

(* Index of the last Play / Stop in a history, 0 when there is none.       *)
LastIdx(h, o) ==
    LET I == {i \in 1..Len(h) : h[i].op = o}
    IN  IF I = {} THEN 0 ELSE CHOOSE i \in I : \A j \in I : j <= i

FailingPlay(c) == c.op = "Play" /\ ~Opens(c.path)

(* The audio thread is between two commands.                               *)
Idle == wpc = "recv"

(* C1: the occupied length of the ring buffer never exceeds its capacity,  *)
(* whatever the order of pushes, clears and snapshots.                     *)
C1_OccupiedAtMostCapacity == Len(sample_buffer) <= Capacity

C1_Witness ==
    /\ Len(pushed) > Capacity
    /\ Len(sample_buffer) = Capacity
    /\ snap # <<>>

(* C2: the buffer holds the last min(pushes, capacity) values pushed since *)
(* the last clear, in push order: a push on a full buffer evicts exactly   *)
(* the oldest one and always inserts the new one.                          *)
C2_HoldsLastCapacityPushed ==
    sample_buffer = LastN(pushed, Min(Len(pushed), Capacity))

C2_Witness ==
    /\ Len(pushed) >= Capacity + 2
    /\ sample_buffer = LastN(pushed, Capacity)
    /\ sample_buffer[1] # sample_buffer[Capacity]

(* C3: the ring buffer never holds samples of two sessions at once (the    *)
(* clear of a Play separates the old track's samples from the new one's).  *)
C3_NeverOldAndNewSamples ==
    \A i, j \in 1..Len(sample_buffer) : sample_buffer[i] = sample_buffer[j]

(* C4: once play() has returned and until a sample of its track arrives,   *)
(* a snapshot holds no sample of an earlier track.                         *)
C4_SnapshotAfterPlayHasNoOldSamples ==
    LET k == LastIdx(issued, "Play")
        arrived == \E i \in 1..Len(sample_buffer) :
                       sess[sample_buffer[i]].cmd_no = k
        shot == Snapshot(sample_buffer)
    IN  (k > 0 /\ ~arrived) =>
            \A i \in 1..Len(shot) : sess[shot[i]].cmd_no >= k

(* C5: the commands received so far, followed by those still in the        *)
(* channel, are exactly the commands sent, in call order.                  *)
C5_HandledInCallOrder == handled \o cmd_queue = issued

C5_Witness ==
    /\ Len(handled) >= 2
    /\ handled[1] # handled[2]
    /\ cmd_queue # <<>>

(* C6: after play(A); play(B) are both processed, B's sink is the session, *)
(* A's sink is stopped, is_playing, not is_paused, and the buffer holds    *)
(* samples of B only.                                                      *)
C6_PlayAThenPlayB ==
    (/\ mode = "normal"
     /\ handled = <<PlayCmd("A"), PlayCmd("B")>>
     /\ Idle)
    => /\ sink = 2
       /\ sess[1].stopped
       /\ ~sess[2].stopped
       /\ is_playing_flag
       /\ ~is_paused_flag
       /\ \A i \in 1..Len(sample_buffer) : sample_buffer[i] = 2

C8_NoSinkStep ==
    (/\ wpc \in {"pause", "resume"}
     /\ sink = 0
     /\ wpc' # wpc)
    => /\ wpc' = "recv"
       /\ UNCHANGED <<is_playing_flag, is_paused_flag, sink, sess,
                      sample_buffer>>

(* What Pause and Resume leave behind when there is a sink.                *)
C8_SinkDone ==
    (Idle /\ sink # 0 /\ handled # <<>>)
    => /\ Last(handled).op = "Pause" => is_paused_flag /\ sess[sink].paused
       /\ Last(handled).op = "Resume" =>
              ~is_paused_flag /\ ~sess[sink].paused

(* C8: Pause and Resume without a sink change neither flag, nor the sink,  *)
(* nor any session, nor the ring buffer; with a sink, Pause leaves         *)
(* is_paused true and Resume leaves it false.                              *)
C8_PauseResume == []C8_SinkDone /\ [][C8_NoSinkStep]_vars

C8_Witness ==
    /\ mode = "normal"
    /\ handled = <<PauseCmd, PlayCmd("A"), PauseCmd>>
    /\ Idle
    /\ is_paused_flag
    /\ is_playing_flag

(* C9: after a Play whose open fails is processed, there is no session and *)
(* is_playing() and is_paused() are both false.                            *)
C9_FailedPlayLeavesIdle ==
    (/\ mode = "normal"
     /\ Idle
     /\ handled # <<>>
     /\ FailingPlay(Last(handled)))
    => /\ sink = 0
       /\ ~is_playing_flag
       /\ ~is_paused_flag

C10_FailedPlayStep ==
    (FailingPlay(cmd) /\ wpc' # wpc)
    => /\ UNCHANGED <<is_playing_flag, is_paused_flag>>
       /\ wpc = "play_stop" =>
              /\ sink' = 0
              /\ sink # 0 => sess'[sink].stopped
              /\ UNCHANGED sample_buffer
       /\ wpc = "play_clear" =>
              /\ sample_buffer' = <<>>
              /\ UNCHANGED <<sink, sess>>
       /\ wpc = "play_open" =>
              /\ wpc' = "recv"
              /\ UNCHANGED <<sink, sess, sample_buffer>>

----------------------------------------------------------------------------
(* C11: when the output device could not be opened (drained mode) the      *)
(* audio thread receives every command, in order, and ignores it: it is    *)
(* always able to take the next pending command, it holds no sink, has     *)
(* created no session, the ring buffer is untouched, and is_playing() and  *)
(* is_paused() are false in every reachable state.                         *)
C11_DrainedModeIgnoresCommands ==
    mode = "drained" =>
        /\ handled \o cmd_queue = issued
        /\ (cmd_queue # <<>> => ENABLED WDrain)
        /\ wpc = "recv" /\ cmd = NoCmd
        /\ sink = 0 /\ sess = <<>> /\ inflight = 0
        /\ sample_buffer = <<>>
        /\ ~is_playing_flag /\ ~is_paused_flag

C11_Witness ==
    /\ mode = "drained"
    /\ Len(handled) = MaxCmds
    /\ cmd_queue = <<>>
    /\ \E i \in 1..Len(handled) : handled[i] = PlayCmd("A")
    /\ \E i \in 1..Len(handled) : handled[i] = ResumeCmd

(* C12: play, pause, resume and stop never wait on the audio thread: each  *)
(* can be called whatever the audio thread is doing and however many       *)
(* commands are pending, and a call only appends its one command to the    *)
(* queue; the flags, the sink and the buffer are left as they are.  A play *)
(* of a path that cannot be opened is accepted like any other.             *)
C12_CallEnabled ==
    /\ Len(issued) < MaxCmds =>
            ENABLED pause /\ ENABLED resume /\ ENABLED stop
    /\ (Len(issued) < MaxCmds /\ NumPlays(issued) < MaxPlays) =>
            \A p \in Paths : ENABLED play(p)

C12_CallStep ==
    issued' # issued =>
        /\ Len(issued') = Len(issued) + 1
        /\ cmd_queue' = Append(cmd_queue, Last(issued'))
        /\ UNCHANGED <<handled, is_playing_flag, is_paused_flag,
                       sample_buffer, mode, wpc, cmd, sink, sess, inflight>>

C13_AtMostOneSink ==
    /\ Cardinality({s \in Sessions : ~sess[s].stopped}) <= 1
    /\ \A s \in Sessions : ~sess[s].stopped => s = Len(sess)
    /\ sink # 0 => (sink = Len(sess) /\ ~sess[sink].stopped)

C13_Witness ==
    /\ mode = "normal"
    /\ Len(sess) = 2
    /\ sink = 2
    /\ sess[1].stopped /\ sess[1].live
    /\ ~sess[2].stopped /\ sess[2].live

(* C14: a snapshot taken when at least MinSamples samples are available    *)
(* returns the min(available, SnapMax) most recently pushed samples, in    *)
(* push order, and leaves the buffer's contents and length unchanged.  In  *)
(* SpecRing a step that pushes nothing and clears nothing is an update.    *)
C14_SnapshotStep ==
    (pushed' = pushed /\ Len(sample_buffer) >= MinSamples) =>
        /\ snap' = LastN(pushed, Min(Len(sample_buffer), SnapMax))
        /\ sample_buffer' = sample_buffer

C14_SnapshotIsNewestSamples == [][C14_SnapshotStep]_vars

C14_Witness ==
    /\ Len(pushed) > Capacity
    /\ Len(sample_buffer) = Capacity
    /\ Len(snap) = SnapMax
    /\ snap = LastN(pushed, SnapMax)
    /\ snap[1] # snap[SnapMax]
    /\ sample_buffer[1] # snap[1]

(* C15: an update that finds fewer than MinSamples samples does not run    *)
(* the analyzer: it multiplies every smoothed value by 0.9 and every peak  *)
(* value by 0.87 and leaves min_db, max_db and the ring buffer unchanged.  *)
C15_SkipStep ==
    (vpc = "locked" /\ Len(sample_buffer) < MinSamples /\ vpc' # vpc) =>
        /\ vpc' = "idle"
        /\ smoothed_magnitudes' =
                [i \in Bands |-> (smoothed_magnitudes[i] * 90) \div 100]
        /\ peak_holds' = [i \in Bands |-> (peak_holds[i] * 87) \div 100]
        /\ UNCHANGED <<min_db, max_db, sample_buffer>>

C15_SkippedCycleDecays == [][C15_SkipStep]_vars

C15_Witness ==
    /\ cycles = 2 /\ vpc = "idle"
    /\ max_db = NextMaxDb(SeedMaxDb * DbUnit, (0 - 6) * DbUnit)
    /\ peak_holds[NumBands - 1] = (Unit * 87) \div 100
    /\ smoothed_magnitudes[NumBands - 1] = (Smooth(0, Unit) * 90) \div 100

(* C16: the visualization state (smoothed and peak values, min_db and      *)
(* max_db) is never changed while the UI thread holds the buffer's mutex.  *)
C16_NoVizWorkStep ==
    lock = "ui" =>
        UNCHANGED <<smoothed_magnitudes, peak_holds, min_db, max_db>>

C16_NoVizWorkUnderLock == [][C16_NoVizWorkStep]_vars

(* C17: min_db and max_db change only in the analysis of a cycle that      *)
(* found enough samples; pushes, the clear of a Play and skipped cycles    *)
(* leave them unchanged.                                                   *)
C17_SensStep ==
    (min_db' # min_db \/ max_db' # max_db) =>
        (vpc = "analyze" /\ vpc' = "idle" /\ Len(snap) >= MinSamples)

C17_SensChangedOnlyByAnalysis == [][C17_SensStep]_vars

C17_Witness ==
    /\ cycles = 2 /\ vpc = "idle"
    /\ sample_buffer = <<>>
    /\ max_db = NextMaxDb(SeedMaxDb * DbUnit, (0 - 40) * DbUnit)
    /\ min_db = NextMinDb(max_db)
    /\ peak_holds[NumBands - 1] < Unit

(* C18: in every reachable analyzer state, from construction onward,       *)
(* min_db = max_db - 60 dB.                                                *)
C18_WindowIs60dB == min_db = max_db - 60 * DbUnit

(* The frame maximum of the constant input.                                *)
SensFrameMax == FrameMax(BandsDb(level, spectrum_size))

Dist(a, b) == IF a >= b THEN a - b ELSE b - a

Tolerance == DbUnit \div 2

Settled == NextMaxDb(max_db, SensFrameMax) = max_db

(* C19 as stated: for a constant input whose frame maximum is L, repeated  *)
(* cycles from max_db = -10 dB bring max_db within 0.5 dB of L and keep it *)
(* there; so wherever max_db settles it is within 0.5 dB of L.             *)
C19_SettlesAtFrameMax == Settled => Dist(max_db, SensFrameMax) <= Tolerance

(* C19, amended: repeated cycles bring max_db within 0.5 dB of the larger  *)
(* of L and the -30 dB floor, and keep it there.                           *)
C19_ConvergesToFlooredFrameMax ==
    <>[](Dist(max_db, Max(SensFrameMax, (0 - 30) * DbUnit)) <= Tolerance)

C19_Witness ==
    /\ level = (0 - 40) * DbUnit
    /\ max_db # SeedMaxDb * DbUnit
    /\ Settled
    /\ Dist(max_db, (0 - 30) * DbUnit) <= Tolerance

(* C20: for 64 bands and a spectrum of 256, 512 or 1024 bins the bin       *)
(* ranges of the bands are contiguous: bin_start(0) = 0, bin_end(i) =      *)
(* bin_start(i + 1) for i < 63, bin_end(63) = spectrum_size, and bin_start *)
(* never decreases.                                                        *)
C20_Ends ==
    /\ spectrum_size \in {256, 512, 1024}
    /\ band = 0 => bin_start = 0
    /\ band = 63 => bin_end = spectrum_size

C20_BandStep ==
    band' = band + 1 =>
        /\ bin_start' = bin_end
        /\ bin_start' >= bin_start

C20_BinRangesContiguous == []C20_Ends /\ [][C20_BandStep]_vars

C20_Witness ==
    /\ spectrum_size = 256
    /\ band = 63
    /\ bin_start < bin_end
    /\ bin_end = 256

(* The input of SpecSens is silence: every sample of the frame is zero.    *)
Silent == level = SilenceDb * DbUnit

(* C21: while every update analyses an all-zero frame, no band's smoothed  *)
(* value and no band's peak value ever increases from one cycle to the     *)
(* next.                                                                   *)
C21_SilenceStep ==
    Silent =>
        \A i \in Bands :
            /\ smoothed_magnitudes'[i] <= smoothed_magnitudes[i]
            /\ peak_holds'[i] <= peak_holds[i]

C21_SilenceNeverRaises == [][C21_SilenceStep]_vars

(* C22: when no new sample is pushed and the buffer keeps the samples of   *)
(* a signal that an update has analysed already, no band's peak value      *)
(* increases in any later update.                                          *)
C22_StaleStep ==
    (~Silent /\ max_db # SeedMaxDb * DbUnit) =>
        \A i \in Bands : peak_holds'[i] <= peak_holds[i]

C22_StalePeaksNeverRaise == [][C22_StaleStep]_vars

(* C28: an all-zero frame gives every one of the 64 bands the dB value     *)
(* -80, and once max_db has settled at its -30 dB floor the normalised     *)
(* output of every band is 0.                                              *)
C28_SilenceIsMinus80AndZero ==
    Silent =>
        \A c \in {Compute(max_db, level, spectrum_size)} :
        \A b \in {BandsDb(level, spectrum_size)} :
        \A i \in Bands :
            /\ b[i] = (0 - 80) * DbUnit
            /\ (max_db = (0 - 30) * DbUnit /\ Settled) => c.magnitudes[i] = 0

(* C29: max_db never falls below -30 dB: from the -10 dB seed every cycle  *)
(* moves it to 0.9 * max_db + 0.1 * max(frame_max, -30).                   *)
C29_AboveFloor == max_db >= (0 - 30) * DbUnit

C29_Step ==
    max_db' =
        (90 * max_db + 10 * Max(SensFrameMax, (0 - 30) * DbUnit)) \div 100

Consumed == SubSeq(source.samples, 1, source.pos)

(* C23: SampleCapture hands on every sample of the wrapped source, in      *)
(* order and unmodified, and None once the source is over, whether or not  *)
(* the ring is full and whether or not the lock could be taken; the one    *)
(* thing a call changes besides is the ring, by a push of that sample.     *)
C23_Yielded ==
    \/ yielded = Consumed
    \/ source.pos = Len(source.samples) /\ yielded = Append(Consumed, NoSample)

C23_Step ==
    source' # source =>
        /\ yielded' = Append(yielded, source.samples[source.pos + 1])
        /\ sample_buffer' \in
               {sample_buffer, Push(sample_buffer, source.samples[source.pos + 1])}
        /\ UNCHANGED <<playerVars, snap, pushed, vizVars, poisoned>>

C23_PassThrough == []C23_Yielded /\ [][C23_Step]_vars

(* All of a source longer than the ring went through a healthy lock: the   *)
(* ring is full of its last samples and next() returned them all, then None. *)
C23_Witness ==
    /\ ~poisoned
    /\ Len(source.samples) = MaxSource
    /\ yielded = Append(source.samples, NoSample)
    /\ sample_buffer = LastN(source.samples, Capacity)
    /\ source.samples[1] # source.samples[MaxSource]

(* C26: with the mutex poisoned, Visualizer::update returns without        *)
(* touching anything, SampleCapture::next still returns the sample without *)
(* recording it, and the Play handler goes on to open the file without     *)
(* clearing the ring.                                                      *)
C26_Step ==
    poisoned =>
        /\ cycles' # cycles =>
               UNCHANGED <<sample_buffer, snap, smoothed_magnitudes,
                           peak_holds, min_db, max_db, lock, vpc>>
        /\ source' # source =>
               /\ yielded' = Append(yielded, source.samples[source.pos + 1])
               /\ sample_buffer' = sample_buffer
        /\ (wpc = "play_clear" /\ wpc' # wpc) =>
               /\ wpc' = "play_open"
               /\ sample_buffer' = sample_buffer

C26_PoisonedLockSkipsWork == [][C26_Step]_vars

(* Two samples were returned unrecorded, a second Play went through with   *)
(* the ring as it was, and update has come back empty-handed.              *)
C26_Witness ==
    /\ poisoned
    /\ yielded = <<1, 0, 0>>
    /\ sample_buffer = <<1>>
    /\ NumPlays(handled) = 2
    /\ wpc = "recv"
    /\ cycles = MaxCycles
    /\ max_db = SeedMaxDb * DbUnit

(* The playback state machine of the claim, run over a command history:    *)
(* p and z are the two flags, s says whether a session is held.            *)
MachineStep(m, c) ==
    CASE c.op = "Play" /\ Opens(c.path) -> [p |-> TRUE, z |-> FALSE, s |-> TRUE]
      [] c.op = "Play" /\ ~Opens(c.path) -> [m EXCEPT !.s = FALSE]
      [] c.op = "Pause" -> IF m.s THEN [p |-> TRUE, z |-> TRUE, s |-> TRUE] ELSE m
      [] c.op = "Resume" -> IF m.s THEN [p |-> TRUE, z |-> FALSE, s |-> TRUE] ELSE m
      [] c.op = "Stop" -> [p |-> FALSE, z |-> FALSE, s |-> FALSE]

RECURSIVE Machine(_)
Machine(h) ==
    IF h = <<>>
    THEN [p |-> FALSE, z |-> FALSE, s |-> FALSE]
    ELSE CHOOSE r \in {MachineStep(m, Last(h)) :
                          m \in {Machine(SubSeq(h, 1, Len(h) - 1))}} : TRUE

C25_PlayingIffSinkHeld ==
    (mode = "normal" /\ Idle) => (is_playing_flag <=> sink # 0)

IsPowerOfTwo(x) == \E k \in 0 .. 11 : x = 2 ^ k

(* C27: for every snapshot length n the analyzer can be given, n is within *)
(* 512..2048 and the FFT size is the smallest power of two >= n, at most   *)
(* 2048 and at least n, so every snapshot sample enters the FFT, and the   *)
(* spectrum size is half the FFT size.                                     *)
C27_FftSizeCoversSnapshot ==
    /\ snap_len \in 512 .. 2048
    /\ fft_size # 0 =>
           /\ IsPowerOfTwo(fft_size)
           /\ fft_size >= snap_len
           /\ fft_size \div 2 < snap_len
           /\ fft_size <= 2048
           /\ Taken(snap_len, fft_size) = snap_len
           /\ 2 * spectrum_size = fft_size

(* A length just above a power of two is rounded up to the cap.            *)
C27_Witness ==
    /\ snap_len = 1025
    /\ fft_size = 2048
    /\ spectrum_size = 1024

(* The audio thread has returned with nothing left to do.                  *)
Terminated ==
    /\ wpc = "exited"
    /\ cmd_queue = <<>>
    /\ handled = issued
    /\ mode = "normal" =>
           /\ sink = 0
           /\ \A s \in 1 .. Len(sess) : sess[s].stopped
           /\ stream = "released"

(* C30: once the MusicPlayer is dropped the audio thread eventually        *)
(* terminates, in normal mode with the sink stopped and the output stream  *)
(* released, in drained mode by returning, and with every command sent     *)
(* before the drop processed.                                              *)
C30_DropTerminatesWorker == dropped ~> Terminated

(* Dropped while a track was playing and commands were still queued: all   *)
(* of them were handled, the sink was stopped on the way out.              *)
C30_Witness ==
    /\ mode = "normal"
    /\ dropped
    /\ Terminated
    /\ Len(handled) = MaxCmds
    /\ Last(handled).op = "Pause"
    /\ sess # <<>>
    /\ is_playing_flag

(* C32: whatever moment the UI thread reads the flags at, between two      *)
(* stores of a handler included, is_paused() implies is_playing().         *)
C32_PausedImpliesPlaying == is_paused_flag => is_playing_flag

(* The sink the audio thread holds has played its source to the end.       *)
Ended ==
    /\ mode = "normal"
    /\ sink # 0
    /\ ~sess[sink].live
    /\ ~sess[sink].stopped

(* C35: once the track in the sink is over, is_playing() eventually        *)
(* reports false, unless a later command replaces or stops the sink.       *)
C35_EndedTrackStopsPlaying == Ended ~> (~is_playing_flag \/ ~Ended)

(* C37: an analysis cycle leaves every band's peak at or above the value   *)
(* the analyzer returned for the band in that cycle.                       *)
C37_Step ==
    \A c \in {Compute(max_db, level, spectrum_size)} :
        \A i \in Bands : peak_holds'[i] >= c.magnitudes[i]

C37_PeakAtLeastBandValue == [][C37_Step]_vars

InUnit(x) == 0 <= x /\ x <= Unit

(* C38: every value the analyzer returns for the frame it is called with,  *)
(* and every smoothed and peak value, lies between 0 and 1, after any      *)
(* sequence of analysed and skipped cycles.                                *)
C38_ValuesInUnitInterval ==
    /\ \A i \in Bands :
           InUnit(smoothed_magnitudes[i]) /\ InUnit(peak_holds[i])
    /\ vpc = "analyze" =>
           \A db \in FrameLevels(snap), S \in SpectrumSizes :
               \A c \in {Compute(max_db, db, S)} :
                   \A i \in Bands : InUnit(c.magnitudes[i])

(* A loud frame was analysed, its top band clamped to 1, and cycles were   *)
(* skipped before and after.                                               *)
C38_Witness ==
    /\ cycles = MaxCycles
    /\ vpc = "idle"
    /\ max_db > SeedMaxDb * DbUnit
    /\ peak_holds[NumBands - 1] = Unit
    /\ smoothed_magnitudes[NumBands - 1] > 0

(* C31: in the music_player.rs variant the ring always holds the most      *)
(* recent samples pushed since the last clear, as many as fit.             *)
C31_OldRingHoldsNewest ==
    sample_buffer = LastN(pushed, Min(Len(pushed), Capacity))

(* Every loader has finished and the UI has polled everything they sent.   *)
MetadataSettled == loaders = {} /\ meta_queue = <<>> /\ toggle_read = "none"

(* C33: once the loaders are done and the channel is drained, the metadata *)
(* and the duration the App holds are those of the track played last,      *)
(* whatever the order the loaders finished in.                             *)
C33_MetadataIsOfLastPlay ==
    (MetadataSettled /\ metadata # NoMeta) =>
        /\ metadata.path = issued[LastIdx(issued, "Play")].path
        /\ duration = Max(metadata.duration_secs, 1)

(* C36: elapsed never exceeds duration, and duration is at least 1.        *)
C36_ElapsedWithinDuration == elapsed <= duration /\ duration >= 1

(* The parts of C36 about single steps: elapsed changes only by a tick     *)
(* taken while playing and not paused, or by the reset of a play or stop,  *)
(* and every play and stop resets it.                                      *)
ElapsedStep ==
    /\ elapsed' # elapsed =>
           \/ Ticking /\ elapsed' = Min(elapsed + 1, duration)
           \/ elapsed' = 0 /\ issued' # issued
    /\ (issued' # issued /\ Last(issued').op \in {"Play", "Stop"}) =>
           elapsed' = 0

ElapsedChangesByTickOrReset == [][ElapsedStep]_vars

(* C34: when both presses of the pause key have been handled, the track is *)
(* unpaused again, as it was before them.                                  *)
C34_TwoTogglesRestore ==
    (NumToggles(issued) = 2 /\ handled = issued /\ wpc = "recv") =>
        /\ ~is_paused_flag
        /\ ~sess[sink].paused


====
